---- MODULE Spec2Model ----
(***************************************************************************)
(* A model of supercheck_builder.py: the token classifier, the record      *)
(* store, the existing-list parser and writer, the merge step of           *)
(* run_gui.on_run (overwrite / append / merge) and the detail-priority     *)
(* cleanup.                                                                *)
(*                                                                         *)
(* A Python str is a sequence of one-character strings, so that strip,     *)
(* upper, split and the regular expressions are computed character by      *)
(* character.  An ExchMap (Dict[str, List[str]]) is a function from        *)
(* callsigns to sequences of codes.  The iteration order of a dict is not  *)
(* modelled as state: every loop over a map in the modelled code treats    *)
(* each callsign independently of the others, and write_supercheck sorts   *)
(* the keys.                                                               *)
(***************************************************************************)
EXTENDS Naturals, Sequences, FiniteSets, TLC

\* ------------------------------------------------------------------------
\* Characters
\* ------------------------------------------------------------------------

Digits == {"0", "1", "2", "3", "4", "5", "6", "7", "8", "9"}

UpperSeq == << "A", "B", "C", "D", "E", "F", "G", "H", "I", "J", "K", "L", "M",
               "N", "O", "P", "Q", "R", "S", "T", "U", "V", "W", "X", "Y", "Z" >>

LowerSeq == << "a", "b", "c", "d", "e", "f", "g", "h", "i", "j", "k", "l", "m",
               "n", "o", "p", "q", "r", "s", "t", "u", "v", "w", "x", "y", "z" >>

UpperLetters == {UpperSeq[i] : i \in DOMAIN UpperSeq}

LowerLetters == {LowerSeq[i] : i \in DOMAIN LowerSeq}

\* The characters str.strip() and \s treat as white space (those of the model).
Whitespace == {" ", "\t"}

DigitSeq == << "0", "1", "2", "3", "4", "5", "6", "7", "8", "9" >>

\* The position of x in a sequence that holds it.
IndexOf(seq, x) == CHOOSE i \in DOMAIN seq : seq[i] = x

\* The code point of a character of the model's alphabet: Python compares str
\* values by code point.
Ord(c) ==
    IF c \in Digits THEN 47 + IndexOf(DigitSeq, c)
    ELSE IF c \in UpperLetters THEN 64 + IndexOf(UpperSeq, c)
    ELSE IF c \in LowerLetters THEN 96 + IndexOf(LowerSeq, c)
    ELSE CASE c = "\t" -> 9
           [] c = " "  -> 32
           [] c = "\"" -> 34
           [] c = "#"  -> 35
           [] c = ","  -> 44
           [] c = "/"  -> 47
           [] c = ":"  -> 58
           [] c = ";"  -> 59

\* The value of a decimal digit.
DigitVal(c) == Ord(c) - 48

\* ------------------------------------------------------------------------
\* str operations
\* ------------------------------------------------------------------------

\* x in lst
Contains(lst, x) == \E i \in DOMAIN lst : lst[i] = x

\* s[i:j] with 1-based inclusive bounds; empty when i > j.
Slice(s, i, j) == [k \in 1..(IF j >= i THEN j - i + 1 ELSE 0) |-> s[i + k - 1]]

\* str.strip(chars): drops the leading and trailing characters that are in cs.
StripChars(s, cs) ==
    LET keep  == {i \in DOMAIN s : s[i] \notin cs}
        Min(S) == CHOOSE x \in S : \A y \in S : x <= y
        Max(S) == CHOOSE x \in S : \A y \in S : x >= y
    IN  IF keep = {} THEN << >> ELSE Slice(s, Min(keep), Max(keep))

\* str.strip()
strip(s) == StripChars(s, Whitespace)

\* str.upper()
upper(s) ==
    [i \in DOMAIN s |-> IF s[i] \in LowerLetters THEN UpperSeq[IndexOf(LowerSeq, s[i])]
                                                 ELSE s[i]]

\* a < b for str values: lexicographic by code point, a proper prefix first.
StrLess(a, b) ==
    \E i \in 1..(Len(b)) :
        /\ i <= Len(a) + 1
        /\ \A k \in 1..(i - 1) : a[k] = b[k]
        /\ (i = Len(a) + 1 \/ Ord(a[i]) < Ord(b[i]))

\* s.startswith(p)
startswith(s, p) == Len(s) >= Len(p) /\ Slice(s, 1, Len(p)) = p

\* The tokens of s between maximal runs of the separator characters seps, the
\* empty ones dropped: str.split() for white space, and
\* [t for t in re.split(r"[,\s;]+", s) if t].
RECURSIVE SplitOn(_, _)
SplitOn(s, seps) ==
    IF s = << >> THEN << >>
    ELSE IF s[1] \in seps THEN SplitOn(Tail(s), seps)
    ELSE LET stops == {i \in DOMAIN s : s[i] \in seps}
             n     == IF stops = {} THEN Len(s) + 1
                      ELSE CHOOSE i \in stops : \A j \in stops : i <= j
         IN  << Slice(s, 1, n - 1) >> \o SplitOn(Slice(s, n, Len(s)), seps)

\* " ".join(parts)
RECURSIVE JoinSpace(_)
JoinSpace(parts) ==
    IF parts = << >> THEN << >>
    ELSE IF Len(parts) = 1 THEN parts[1]
    ELSE parts[1] \o << " " >> \o JoinSpace(Tail(parts))

\* int(s) for a string of decimal digits.
RECURSIVE ToInt(_)
ToInt(s) ==
    IF s = << >> THEN 0
    ELSE 10 * ToInt(Slice(s, 1, Len(s) - 1)) + DigitVal(s[Len(s)])

\* ------------------------------------------------------------------------
\* Normalisation and the token classifier
\* ------------------------------------------------------------------------
\* A value that a Python function binds to a local variable and then reads
\* several times is the parameter of an operator of its own here (the part
\* of the function after the assignment), so that it is written once.

_strip_cell(s) == strip(StripChars(strip(s), {"\""}))

_norm_call(s) == upper(_strip_cell(s))

_norm_exch(s) == StripChars(upper(_strip_cell(s)), {",", ";"})

\* _CALL_CAND_RE, _HAS_ALPHA_RE, _HAS_DIGIT_RE
_is_callsign(s) ==
    /\ s # << >>
    /\ \A i \in DOMAIN s : s[i] \in UpperLetters \cup Digits \cup {"/"}
    /\ \E i \in DOMAIN s : s[i] \in UpperLetters
    /\ \E i \in DOMAIN s : s[i] \in Digits

\* _PREF2_RE.match(s): ^\d{2}$
Pref2Match(s) == Len(s) = 2 /\ s[1] \in Digits /\ s[2] \in Digits

_is_pref2(s) == Pref2Match(_norm_exch(s))

\* _DATE_RE.match(s): ^\d{2}/\d{2}/\d{2}$ | ^\d{4}/\d{2}/\d{2}$
DateMatch(s) ==
    LET Shape(n) ==
            /\ Len(s) = n + 6
            /\ \A i \in 1..n : s[i] \in Digits
            /\ s[n + 1] = "/" /\ s[n + 2] \in Digits /\ s[n + 3] \in Digits
            /\ s[n + 4] = "/" /\ s[n + 5] \in Digits /\ s[n + 6] \in Digits
    IN  Shape(2) \/ Shape(4)

\* The length of the "num" group of _JCCJCG_RE, ^(\d{4,6})([A-Z]?)$, on s; 0
\* when s does not match.
JccNumLen(s) ==
    LET n == Len(s)
        AllDigits(k) == \A i \in 1..k : s[i] \in Digits
    IN  IF n \in 4..6 /\ AllDigits(n) THEN n
        ELSE IF n \in 5..7 /\ AllDigits(n - 1) /\ s[n] \in UpperLetters THEN n - 1
        ELSE 0

\* A classifier that takes a digit part of zeros only for a full code.
JccjcgAllowingZeros(s) ==
    /\ ~DateMatch(s)
    /\ \A i \in DOMAIN s : s[i] \notin {"/", ":"}
    /\ JccNumLen(s) > 0

\* _is_jccjcg after s = _norm_exch(s)
JccjcgNormalised(s) ==
    /\ ~DateMatch(s)
    /\ \A i \in DOMAIN s : s[i] \notin {"/", ":"}
    /\ JccNumLen(s) > 0
    /\ \E i \in 1..JccNumLen(s) : s[i] # "0"

_is_jccjcg(s) == s # << >> /\ JccjcgNormalised(_norm_exch(s))

\* _split_num_suffix after exch = _norm_exch(exch): (num, suf) as a record
SplitNormalised(exch) ==
    IF JccNumLen(exch) = 0 THEN [num |-> << >>, suf |-> << >>]
    ELSE [num |-> Slice(exch, 1, JccNumLen(exch)),
          suf |-> Slice(exch, JccNumLen(exch) + 1, Len(exch))]

_split_num_suffix(exch) == SplitNormalised(_norm_exch(exch))

_normalize_base_digits(num) ==
    IF Len(num) = 6 /\ num[3] = "0"
    THEN Slice(num, 1, 2) \o Slice(num, 4, 6)
    ELSE num

\* _base_key after num, suf = _split_num_suffix(exch): (int(base), suf);
\* int("") raises ValueError, which gives 0.
BaseKeyOf(ns) == [base |-> ToInt(_normalize_base_digits(ns.num)), suf |-> ns.suf]

_base_key(exch) == BaseKeyOf(_split_num_suffix(exch))

\* _detail_score after num, suf = _split_num_suffix(exch)
ScoreOf(ns) ==
    Len(_normalize_base_digits(ns.num)) + (IF ns.suf # << >> THEN 100 ELSE 0)

_detail_score(exch) == ScoreOf(_split_num_suffix(exch))

\* ------------------------------------------------------------------------
\* The record store (ExchMap)
\* ------------------------------------------------------------------------

\* {}: the map with no callsign
EmptyMap == [c \in {} |-> << >>]

\* mapping.get(call, [])
Get(mapping, call) == IF call \in DOMAIN mapping THEN mapping[call] ELSE << >>

\* mapping[call] = lst
Put(mapping, call, lst) ==
    [c \in DOMAIN mapping \cup {call} |-> IF c = call THEN lst ELSE mapping[c]]

\* mapping.setdefault(call, [])
SetDefault(mapping, call) ==
    IF call \in DOMAIN mapping THEN mapping ELSE Put(mapping, call, << >>)

\* set(lst)
ToSet(lst) == {lst[i] : i \in DOMAIN lst}

\* [x for x in exchs if _is_jccjcg(x)]
Fulls(exchs) == SelectSeq(exchs, _is_jccjcg)

\* An _add_exch that appends without looking for the code in the list.
AddAlways(mapping, call, exch) ==
    IF exch = << >> THEN mapping
    ELSE Put(mapping, call, Append(mapping[call], exch))

\* _add_exch after the normalisation of call and exch and the setdefault
AddNormalised(mapping, call, exch) ==
    IF exch = << >> THEN mapping
    ELSE IF ~Contains(mapping[call], exch)
    THEN Put(mapping, call, Append(mapping[call], exch))
    ELSE mapping

_add_exch(mapping, call, exch) ==
    AddNormalised(SetDefault(mapping, _norm_call(call)), _norm_call(call), _norm_exch(exch))

\* for x in exchs: _add_exch(mapping, call, x)
RECURSIVE AddAll(_, _, _)
AddAll(mapping, call, exchs) ==
    IF exchs = << >> THEN mapping
    ELSE AddAll(_add_exch(mapping, call, Head(exchs)), call, Tail(exchs))

RECURSIVE _stable_unique(_)
_stable_unique(items) ==
    IF items = << >> THEN << >>
    ELSE LET init == _stable_unique(Slice(items, 1, Len(items) - 1))
             x    == items[Len(items)]
         IN  IF Contains(init, x) THEN init ELSE Append(init, x)

\* The concatenation of a sequence of lists.
RECURSIVE Flatten(_)
Flatten(lists) ==
    IF lists = << >> THEN << >> ELSE Head(lists) \o Flatten(Tail(lists))

\* ------------------------------------------------------------------------
\* Detail-priority cleanup
\* ------------------------------------------------------------------------

\* The base_int of _base_key(x)
BaseInt(x) == _base_key(x).base

\* bool(_split_num_suffix(x)[1])
HasSuffix(x) == _split_num_suffix(x).suf # << >>

\* The order of sorted(no_suf, key=lambda s: (-_detail_score(s), len(s), s)).
SortKeyLess(a, b) ==
    \/ _detail_score(a) > _detail_score(b)
    \/ /\ _detail_score(a) = _detail_score(b)
       /\ \/ Len(a) < Len(b)
          \/ Len(a) = Len(b) /\ StrLess(a, b)

\* sorted(no_suf, key=...)[0]
BestNoSuffix(no_suf) ==
    CHOOSE x \in ToSet(no_suf) : \A y \in ToSet(no_suf) : ~SortKeyLess(y, x)

\* A group without suffixed codes and with several codes: best is kept.
KeepBest(no_suf, best) ==
    [kept |-> << best >>, removed |-> SelectSeq(no_suf, LAMBDA x : x # best)]

\* A cleanup that, in a group with a suffixed code, removes the first
\* suffix-less code only.
GroupResultFirstOnly(with_suf, no_suf) ==
    IF with_suf # << >> /\ no_suf # << >>
    THEN [kept    |-> _stable_unique(with_suf) \o Tail(no_suf),
          removed |-> << Head(no_suf) >>]
    ELSE IF Len(no_suf) <= 1
    THEN [kept |-> _stable_unique(with_suf) \o no_suf, removed |-> << >>]
    ELSE KeepBest(no_suf, BestNoSuffix(no_suf))

\* What a group of by_base adds to kept_fulls and to removed_less_detail.
GroupResult(with_suf, no_suf) ==
    IF with_suf # << >>
    THEN [kept |-> _stable_unique(with_suf), removed |-> no_suf]
    ELSE IF Len(no_suf) <= 1
    THEN [kept |-> no_suf, removed |-> << >>]
    ELSE KeepBest(no_suf, BestNoSuffix(no_suf))

\* One group of by_base, split into with_suf and no_suf.
CleanupGroup(items) ==
    GroupResult(SelectSeq(items, HasSuffix), SelectSeq(items, LAMBDA x : ~HasSuffix(x)))

\* by_base.values() for the keys bases, in their insertion order.
GroupsFor(fulls, bases) ==
    [k \in DOMAIN bases |->
        CleanupGroup(SelectSeq(fulls, LAMBDA x : BaseInt(x) = bases[k]))]

\* The groups of fulls, in the insertion order of their keys.
GroupsOf(fulls) ==
    GroupsFor(fulls, _stable_unique([k \in DOMAIN fulls |-> BaseInt(fulls[k])]))

\* Step 3 of the loop body: the new list, in the order of exchs.
Rebuild(exchs, removed_pref2, pref2s, others, kept_fulls, removed_less_detail) ==
    [new_list |->
        _stable_unique(SelectSeq(exchs,
            LAMBDA x : x \in ToSet(pref2s) \cup ToSet(kept_fulls) \cup ToSet(others))),
     removed_pref2       |-> removed_pref2,
     removed_less_detail |-> removed_less_detail]

\* A cleanup without rule 1: prefectures stay beside full codes.
CleanupPartsKeepingPref2(exchs, has_fulls, pref2s, others, groups) ==
    Rebuild(exchs, << >>, pref2s, others,
            Flatten([k \in DOMAIN groups |-> groups[k].kept]),
            Flatten([k \in DOMAIN groups |-> groups[k].removed]))

\* Steps 1 and 2 of the loop body, on the three kinds of codes of exchs.
CleanupParts(exchs, has_fulls, pref2s, others, groups) ==
    Rebuild(exchs,
            IF has_fulls /\ pref2s # << >> THEN pref2s ELSE << >>,
            IF has_fulls /\ pref2s # << >> THEN << >> ELSE pref2s,
            others,
            Flatten([k \in DOMAIN groups |-> groups[k].kept]),
            Flatten([k \in DOMAIN groups |-> groups[k].removed]))

\* The body of detail_cleanup_map's loop, for the codes of one callsign.
DetailCleanupCall(exchs) ==
    CleanupParts(exchs,
                 Fulls(exchs) # << >>,
                 SelectSeq(exchs, _is_pref2),
                 SelectSeq(exchs, LAMBDA x : ~_is_jccjcg(x) /\ ~_is_pref2(x)),
                 GroupsOf(Fulls(exchs)))

\* A cleanup that reports the callsigns that lost a less detailed code only.
CleanupResultLessDetailOnly(r) ==
    [cleaned |-> [c \in DOMAIN r |-> r[c].new_list],
     changes |-> [c \in {d \in DOMAIN r : r[d].removed_less_detail # << >>}
                    |-> [removed_pref2       |-> r[c].removed_pref2,
                         removed_less_detail |-> r[c].removed_less_detail]]]

\* (cleaned, changes) out of the result r of the loop body for each callsign
CleanupResult(r) ==
    [cleaned |-> [c \in DOMAIN r |-> r[c].new_list],
     changes |-> [c \in {d \in DOMAIN r : \/ r[d].removed_pref2 # << >>
                                         \/ r[d].removed_less_detail # << >>}
                    |-> [removed_pref2       |-> r[c].removed_pref2,
                         removed_less_detail |-> r[c].removed_less_detail]]]

detail_cleanup_map(mapping) ==
    CleanupResult([c \in DOMAIN mapping |-> DetailCleanupCall(mapping[c])])

\* ------------------------------------------------------------------------
\* The merge step
\* ------------------------------------------------------------------------
\* best_by_base and src_by_base are one table of (base, best, src) rows in
\* insertion order.

\* A comparison that lets a candidate of the CSV only replace the row.
CompareCsvOnly(table, i, x, src, cur_score, new_score) ==
    IF src = "csv" /\ new_score >= cur_score
    THEN [table EXCEPT ![i] = [base |-> table[i].base, best |-> x, src |-> src]]
    ELSE table

\* consider(x, src) when best_by_base holds row i for the base of x
Compare(table, i, x, src, cur_score, new_score) ==
    IF \/ new_score > cur_score
       \/ new_score = cur_score /\ src = "csv" /\ table[i].src # "csv"
    THEN [table EXCEPT ![i] = [base |-> table[i].base, best |-> x, src |-> src]]
    ELSE table

\* consider(x, src) after base_int, _suf = _base_key(x)
ConsiderBase(table, x, src, base_int) ==
    IF base_int = 0 THEN table
    ELSE IF \A i \in DOMAIN table : table[i].base # base_int
    THEN Append(table, [base |-> base_int, best |-> x, src |-> src])
    ELSE Compare(table, CHOOSE i \in DOMAIN table : table[i].base = base_int, x, src,
                 _detail_score(table[CHOOSE i \in DOMAIN table : table[i].base = base_int].best),
                 _detail_score(x))

consider(table, x, src) == ConsiderBase(table, x, src, BaseInt(x))

\* for x in items: consider(x, src)
RECURSIVE ConsiderAll(_, _, _)
ConsiderAll(table, items, src) ==
    IF items = << >> THEN table
    ELSE ConsiderAll(consider(table, Head(items), src), Tail(items), src)

\* best_by_base.get(base_int), << >> for None
BestOf(table, base_int) ==
    IF \A i \in DOMAIN table : table[i].base # base_int THEN << >>
    ELSE table[CHOOSE i \in DOMAIN table : table[i].base = base_int].best

\* The two output loops: the candidates in the order the loops meet them,
\* of which "used" lets the first occurrence of each through.
OverwriteOutput(csv_fulls, table) ==
    _stable_unique(
        SelectSeq([k \in DOMAIN csv_fulls |-> BestOf(table, BaseInt(csv_fulls[k]))],
                  LAMBDA c : c # << >>)
        \o [k \in DOMAIN table |-> table[k].best])

\* A choice that protects the more detailed existing codes whatever the
\* option says.
ChooseProtecting(existing_exchs, csv_fulls, ex_fulls, protect_existing_if_more_detailed) ==
    IF csv_fulls = << >> THEN existing_exchs
    ELSE OverwriteOutput(csv_fulls,
            ConsiderAll(ConsiderAll(<< >>, csv_fulls, "csv"), ex_fulls, "existing"))

\* A choice that keeps the full codes of the existing record only when the
\* CSV has no full code.
ChooseDroppingOthers(existing_exchs, csv_fulls, ex_fulls, protect_existing_if_more_detailed) ==
    IF csv_fulls = << >> THEN ex_fulls
    ELSE IF ~protect_existing_if_more_detailed THEN _stable_unique(csv_fulls)
    ELSE OverwriteOutput(csv_fulls,
            ConsiderAll(ConsiderAll(<< >>, csv_fulls, "csv"), ex_fulls, "existing"))

\* choose_overwrite_call after csv_fulls and ex_fulls
ChooseFulls(existing_exchs, csv_fulls, ex_fulls, protect_existing_if_more_detailed) ==
    IF csv_fulls = << >> THEN existing_exchs
    ELSE IF ~protect_existing_if_more_detailed THEN _stable_unique(csv_fulls)
    ELSE OverwriteOutput(csv_fulls,
            ConsiderAll(ConsiderAll(<< >>, csv_fulls, "csv"), ex_fulls, "existing"))

choose_overwrite_call(existing_exchs, csv_exchs, protect_existing_if_more_detailed) ==
    ChooseFulls(existing_exchs, Fulls(csv_exchs), Fulls(existing_exchs),
                protect_existing_if_more_detailed)

\* mode == "overwrite": the body of the loop over new_map
OverwriteBody(merged, call, exchs, protect) ==
    Put(merged, call, choose_overwrite_call(Get(merged, call), exchs, protect))

\* An append that fills the callsigns without a record only, not the empty
\* records.
AppendAbsentOnly(merged, call, fulls) ==
    IF fulls = << >> THEN SetDefault(merged, call)
    ELSE IF call \notin DOMAIN merged
    THEN AddAll(Put(merged, call, << >>), call, fulls)
    ELSE merged

\* mode == "append": the body of the loop after fulls = [...]
AppendFulls(merged, call, fulls) ==
    IF fulls = << >> THEN SetDefault(merged, call)
    ELSE IF call \notin DOMAIN merged \/ Get(merged, call) = << >>
    THEN AddAll(Put(merged, call, << >>), call, fulls)
    ELSE merged

AppendBody(merged, call, exchs) == AppendFulls(merged, call, Fulls(exchs))

\* A merge that starts the record of the callsign afresh.
MergeBodyAfresh(merged, call, exchs) == AddAll(Put(merged, call, << >>), call, Fulls(exchs))

\* A merge that registers every callsign of new_map.
MergeBodyRegistering(merged, call, exchs) == AddAll(SetDefault(merged, call), call, Fulls(exchs))

\* mode == "merge": the body of the loop over new_map
MergeBody(merged, call, exchs) == AddAll(merged, call, Fulls(exchs))

\* The body of the loop of the chosen mode for one callsign of new_map.
LoopBody(merged, call, exchs, mode_, protect_) ==
    IF mode_ = "overwrite" THEN OverwriteBody(merged, call, exchs, protect_)
    ELSE IF mode_ = "append" THEN AppendBody(merged, call, exchs)
    ELSE MergeBody(merged, call, exchs)

\* The loop "for call, exchs in new_map.items()" over the callsigns still to
\* visit.
RECURSIVE MergeLoop(_, _, _, _, _)
MergeLoop(merged, new_map, calls, mode_, protect_) ==
    IF calls = {} THEN merged
    ELSE LET call == CHOOSE c \in calls : TRUE
         IN  MergeLoop(LoopBody(merged, call, new_map[call], mode_, protect_),
                       new_map, calls \ {call}, mode_, protect_)

\* The merge step of on_run: merged starts as a copy of existing_map.
MergeStep(existing, new_map, mode_, protect_) ==
    MergeLoop(existing, new_map, DOMAIN new_map, mode_, protect_)

\* ------------------------------------------------------------------------
\* The CSV: read_hamlog_csv_calls
\* ------------------------------------------------------------------------
\* The CSV is the sequence of the rows csv.reader gives, each the sequence
\* of its cells, so that cell i of the code is row[i + 1] here; an index
\* that is None is 0 and a callsign or a code not found is << >>.  The
\* header names written in kana or kanji are outside the characters of the
\* model.

\* The names that make row 0 a header row.
HeaderMarks == {<< "C", "A", "L", "L" >>, << "C", "A", "L", "L", "S", "I", "G", "N" >>}

_CALL_HEADERS ==
    {<< "C", "A", "L", "L" >>,
     << "C", "A", "L", "L", "S", "I", "G", "N" >>,
     << "C", "A", "L", "L", "S", "I", "G", "N", " " >>,
     << "C", "A", "L", "L", "S", "I", "G", "N", "\t" >>,
     << "C", "A", "L", "L", "S", "I", "G", "N", "1" >>}

_QTH_HEADERS ==
    {<< "J", "C", "C" >>,
     << "J", "C", "G" >>,
     << "J", "C", "C", "/", "J", "C", "G" >>,
     << "J", "C", "C", "J", "C", "G" >>,
     << "Q", "T", "H" >>,
     << "Q", "T", "H", "1" >>,
     << "Q", "R", "A" >>,
     << "L", "O", "C" >>}

\* norm = [_strip_cell(c).upper() for c in row]; the first i with norm[i]
\* in candidates, 0 for None
_header_index(row, candidates) ==
    IF \A k \in DOMAIN row : upper(_strip_cell(row[k])) \notin {upper(c) : c \in candidates}
    THEN 0
    ELSE CHOOSE k \in DOMAIN row :
            /\ upper(_strip_cell(row[k])) \in {upper(c) : c \in candidates}
            /\ \A j \in 1..(k - 1) :
                 upper(_strip_cell(row[j])) \notin {upper(c) : c \in candidates}

\* any(_strip_cell(c).upper() in {...} for c in row)
IsHeaderRow(row) == \E k \in DOMAIN row : upper(_strip_cell(row[k])) \in HeaderMarks

\* 3) the scan of the row for a callsign
ScanCall(row) ==
    IF \A k \in DOMAIN row : ~_is_callsign(_norm_call(row[k])) THEN << >>
    ELSE _norm_call(row[CHOOSE k \in DOMAIN row :
                            /\ _is_callsign(_norm_call(row[k]))
                            /\ \A j \in 1..(k - 1) : ~_is_callsign(_norm_call(row[j]))])

\* 2) the callsign at the header position, then the scan
HintCall(row, call_idx) ==
    IF call_idx # 0 /\ call_idx <= Len(row) /\ _is_callsign(_norm_call(row[call_idx]))
    THEN _norm_call(row[call_idx])
    ELSE ScanCall(row)

\* An extraction that looks at the header position before cell 0.
RowCallHintFirst(row, call_idx) ==
    IF call_idx # 0 /\ call_idx <= Len(row) /\ _is_callsign(_norm_call(row[call_idx]))
    THEN _norm_call(row[call_idx])
    ELSE IF Len(row) >= 1 /\ _is_callsign(_norm_call(row[1])) THEN _norm_call(row[1])
    ELSE ScanCall(row)

\* call, for a row and the call_idx of the header
RowCall(row, call_idx) ==
    IF Len(row) >= 1 /\ _is_callsign(_norm_call(row[1])) THEN _norm_call(row[1])
    ELSE HintCall(row, call_idx)

\* A cell the scan for a code takes.
ScanTakes(c) ==
    /\ ~Contains(_norm_exch(c), "/")
    /\ ~Contains(_norm_exch(c), ":")
    /\ _is_jccjcg(_norm_exch(c))

\* 3) the scan of the row for a code
ScanExch(row) ==
    IF \A k \in DOMAIN row : ~ScanTakes(row[k]) THEN << >>
    ELSE _norm_exch(row[CHOOSE k \in DOMAIN row :
                            ScanTakes(row[k]) /\ \A j \in 1..(k - 1) : ~ScanTakes(row[j])])

\* 2) the code at the header position, then the scan
HintExch(row, qth_idx) ==
    IF qth_idx # 0 /\ qth_idx <= Len(row) /\ _is_jccjcg(_norm_exch(row[qth_idx]))
    THEN _norm_exch(row[qth_idx])
    ELSE ScanExch(row)

\* exch, for a row and the qth_idx of the header
RowExch(row, qth_idx) ==
    IF Len(row) >= 8 /\ _is_jccjcg(_norm_exch(row[8])) THEN _norm_exch(row[8])
    ELSE HintExch(row, qth_idx)

\* A store that takes the callsign of every row, domestic-only or not.
StoreRowKeepingAll(out, call, exch, keep_domestic_only) ==
    IF call = << >> THEN out
    ELSE IF exch # << >> THEN _add_exch(SetDefault(out, call), call, exch)
    ELSE SetDefault(out, call)

\* The end of the loop body, from "if call is None: continue" on.
StoreRow(out, call, exch, keep_domestic_only) ==
    IF call = << >> THEN out
    ELSE IF keep_domestic_only /\ exch = << >> THEN out
    ELSE IF exch # << >> THEN _add_exch(SetDefault(out, call), call, exch)
    ELSE SetDefault(out, call)

\* The loop body for a row that is not empty, its cells stripped.
ReadStrippedRow(acc, ridx, row, keep_domestic_only) ==
    IF ridx = 0 /\ IsHeaderRow(row)
    THEN [out      |-> acc.out,
          call_idx |-> _header_index(row, _CALL_HEADERS),
          qth_idx  |-> _header_index(row, _QTH_HEADERS)]
    ELSE [out      |-> StoreRow(acc.out, RowCall(row, acc.call_idx),
                                RowExch(row, acc.qth_idx), keep_domestic_only),
          call_idx |-> acc.call_idx,
          qth_idx  |-> acc.qth_idx]

\* The loop body for row ridx.
ReadRow(acc, ridx, row, keep_domestic_only) ==
    IF row = << >> THEN acc
    ELSE ReadStrippedRow(acc, ridx, [k \in DOMAIN row |-> _strip_cell(row[k])],
                         keep_domestic_only)

\* for ridx, row in enumerate(reader), from row ridx on
RECURSIVE ReadRows(_, _, _, _)
ReadRows(acc, ridx, rows, keep_domestic_only) ==
    IF rows = << >> THEN acc
    ELSE ReadRows(ReadRow(acc, ridx, Head(rows), keep_domestic_only),
                  ridx + 1, Tail(rows), keep_domestic_only)

read_hamlog_csv_calls(rows, keep_domestic_only) ==
    ReadRows([out |-> EmptyMap, call_idx |-> 0, qth_idx |-> 0], 0, rows,
             keep_domestic_only).out

\* ------------------------------------------------------------------------
\* Incomplete-record cleanup
\* ------------------------------------------------------------------------
\* filled and removed are modelled as the sets of their elements: each
\* callsign is appended at most once, and the report sorts both lists.

\* del mapping[call]
Del(mapping, call) == [c \in DOMAIN mapping \ {call} |-> mapping[c]]

_only_incomplete(exchs) ==
    IF exchs = << >> THEN [is_incomp |-> TRUE, kind |-> "blank"]
    ELSE IF \E k \in DOMAIN exchs : _is_jccjcg(exchs[k])
    THEN [is_incomp |-> FALSE, kind |-> ""]
    ELSE IF \A k \in DOMAIN exchs : _is_pref2(exchs[k])
    THEN [is_incomp |-> TRUE, kind |-> "pref2"]
    ELSE [is_incomp |-> FALSE, kind |-> ""]

\* A cleanup that fills incomplete records but deletes none.
IncompleteCallKeeping(acc, call, fulls) ==
    IF fulls # << >>
    THEN [updated |-> AddAll(Put(acc.updated, call, << >>), call, fulls),
          filled  |-> acc.filled \cup {call},
          removed |-> acc.removed]
    ELSE acc

\* The loop body for an incomplete record, after fulls = [...]
IncompleteCall(acc, call, fulls) ==
    IF fulls # << >>
    THEN [updated |-> AddAll(Put(acc.updated, call, << >>), call, fulls),
          filled  |-> acc.filled \cup {call},
          removed |-> acc.removed]
    ELSE [updated |-> Del(acc.updated, call),
          filled  |-> acc.filled,
          removed |-> acc.removed \cup {call}]

\* The body of the loop over list(updated.keys())
IncompleteBody(acc, new_map, call) ==
    IF ~_only_incomplete(Get(acc.updated, call)).is_incomp THEN acc
    ELSE IncompleteCall(acc, call, Fulls(Get(new_map, call)))

RECURSIVE IncompleteLoop(_, _, _)
IncompleteLoop(acc, new_map, calls) ==
    IF calls = {} THEN acc
    ELSE IncompleteLoop(IncompleteBody(acc, new_map, CHOOSE c \in calls : TRUE),
                        new_map, calls \ {CHOOSE c \in calls : TRUE})

\* (updated, filled, removed)
cleanup_incomplete_existing(existing_map, new_map) ==
    IncompleteLoop([updated |-> existing_map, filled |-> {}, removed |-> {}],
                   new_map, DOMAIN existing_map)

\* ------------------------------------------------------------------------
\* The existing-list file: write_supercheck and read_existing_supercheck
\* ------------------------------------------------------------------------
\* A text file is the sequence of its lines: no string of the model holds a
\* line break, and every character is ASCII, so that the "\n" joins of the
\* writer, splitlines() and the encodings tried by _read_text_any_encoding
\* give the lines back as written.

\* sorted(calls)
RECURSIVE Sorted(_)
Sorted(calls) ==
    IF calls = {} THEN << >>
    ELSE LET least == CHOOSE x \in calls : \A y \in calls : ~StrLess(y, x)
         IN  << least >> \o Sorted(calls \ {least})

\* The line written for one code: exch is exch.strip()
WriteLine(call, exch) == IF exch # << >> THEN call \o << " " >> \o exch ELSE call

\* The lines written for one callsign.
WriteCall(call, exchs) ==
    IF exchs = << >> THEN << call >>
    ELSE [k \in DOMAIN exchs |-> WriteLine(call, strip(exchs[k]))]

\* The lines written for the callsigns calls, in this order.
WriteCalls(mapping, calls) ==
    Flatten([k \in DOMAIN calls |-> WriteCall(calls[k], mapping[calls[k]])])

\* The lines of the output file, header_lines first.
write_supercheck(mapping, header_lines) ==
    header_lines \o WriteCalls(mapping, Sorted(DOMAIN mapping))

\* The tokens that are codes, normalised.
PickedOf(tokens) ==
    SelectSeq([k \in DOMAIN tokens |-> _norm_exch(tokens[k])],
              LAMBDA nt : _is_jccjcg(nt) \/ _is_pref2(nt))

\* picked, out of the tokens of rest
Picked(rest) == PickedOf(SplitOn(rest, Whitespace \cup {",", ";"}))

\* The loop body after rest, for a line of callsign call.
ReadRest(mapping, call, rest, picked) ==
    IF rest = << >> THEN SetDefault(mapping, call)
    ELSE IF picked # << >> THEN AddAll(mapping, call, picked)
    ELSE _add_exch(mapping, call, rest)

\* The loop body after parts = line.split(), for a line that is no comment.
ReadParts(mapping, parts, call) ==
    IF ~_is_callsign(call) THEN mapping
    ELSE IF Len(parts) > 1
    THEN ReadRest(mapping, call, strip(JoinSpace(Tail(parts))),
                  Picked(strip(JoinSpace(Tail(parts)))))
    ELSE ReadRest(mapping, call, << >>, << >>)

\* The loop body after line = raw.strip(), on the (mapping, header) so far.
ReadStripped(acc, raw, line) ==
    IF line = << >> THEN acc
    ELSE IF \/ startswith(line, << "/", "/" >>)
            \/ startswith(line, << "#" >>)
            \/ startswith(line, << ";" >>)
    THEN [acc EXCEPT !.header = Append(@, raw)]
    ELSE [acc EXCEPT !.mapping =
            ReadParts(@, SplitOn(line, Whitespace),
                      _norm_call(SplitOn(line, Whitespace)[1]))]

\* The body of read_existing_supercheck's loop for one raw line.
ReadLine(acc, raw) == ReadStripped(acc, raw, strip(raw))

RECURSIVE ReadLines(_, _)
ReadLines(acc, lines) ==
    IF lines = << >> THEN acc
    ELSE ReadLines(ReadLine(acc, Head(lines)), Tail(lines))

\* (mapping, header) of a file that exists
read_existing_supercheck(lines) ==
    ReadLines([mapping |-> EmptyMap, header |-> << >>], lines)

\* ------------------------------------------------------------------------
\* Inputs of the model
\* ------------------------------------------------------------------------
\* Callsigns, codes and file lines, each a str.  Every code is one that
\* _add_exch stores (normalised, not empty); the opaque token is one that
\* read_existing_supercheck keeps (no part of it is a code).

JA1ABC == << "J", "A", "1", "A", "B", "C" >>
Call7J1ADJ == << "7", "J", "1", "A", "D", "J", "/", "6" >>
CallSlashA1 == << "/", "/", "A", "1" >>
Code29012A == << "2", "9", "0", "1", "2", "A" >>
Code29012B == << "2", "9", "0", "1", "2", "B" >>
Code29012 == << "2", "9", "0", "1", "2" >>
Code290012 == << "2", "9", "0", "0", "1", "2" >>
Code290120 == << "2", "9", "0", "1", "2", "0" >>
Code1001 == << "1", "0", "0", "1" >>
Code01001 == << "0", "1", "0", "0", "1" >>
Code1001A == << "1", "0", "0", "1", "A" >>
Code01001B == << "0", "1", "0", "0", "1", "B" >>
Code55001 == << "5", "5", "0", "0", "1" >>
Code47003G == << "4", "7", "0", "0", "3", "G" >>
Code100115 == << "1", "0", "0", "1", "1", "5" >>
Pref10 == << "1", "0" >>
Pref11 == << "1", "1" >>
OpaqueABC == << "A", "B", "C" >>
LineFull == << "J", "A", "1", "A", "B", "C", " ", "2", "9", "0", "1", "2", "A" >>
LinePref == << "J", "A", "1", "A", "B", "C", " ", "1", "0" >>
LineOpaqueSemi == << "J", "A", "1", "A", "B", "C", " ", "A", "B", "C", " ", ";" >>
LineCallOnly == << "J", "A", "1", "A", "B", "C" >>
LineLowerTwo == << "j", "a", "1", "a", "b", "c", " ", "2", "9", "0", "1", "2", ",", " ", "1", "0" >>
LineComment == << "#", " ", "c", "o", "m", "m", "e", "n", "t" >>
LineOther == << "7", "J", "1", "A", "D", "J", "/", "6", " ", "4", "7", "0", "0", "3", "G" >>
LineOpaque == << "J", "A", "1", "A", "B", "C", " ", "A", "B", "C" >>

\* The most codes of JA1ABC in the existing and the incoming store together,
\* when every pair of stores is merged.
MaxCodes == 3

\* The longest code list of a store that is merged into itself.
MaxLen == 2

\* The longest code list of a store given to the detail-priority cleanup.
MaxCleanup == 3

\* The most lines of an existing-list file.
MaxLines == 2

\* The number of times the detail-priority cleanup is applied in a row.
MaxApply == 2

\* The duplicate-free lists of at most n codes out of codes.
ListsUpTo(codes, n) ==
    UNION {{l \in [1..k -> codes] : \A i, j \in 1..k : i # j => l[i] # l[j]} : k \in 0..n}

\* No record (<< >>) or one of recs (<< r >>).
Opt(recs) == {<< >>} \cup {<< r >> : r \in recs}

\* The store with the record a of JA1ABC and the record b of 7J1ADJ/6, each
\* an option.
StoreOf(a, b) ==
    [c \in (IF a = << >> THEN {} ELSE {JA1ABC}) \cup (IF b = << >> THEN {} ELSE {Call7J1ADJ})
        |-> IF c = JA1ABC THEN a[1] ELSE b[1]]

\* The stores that hold, for JA1ABC, no record or one of recsA and, for
\* 7J1ADJ/6, no record or one of recsB.
StoresOf(recsA, recsB) == {StoreOf(a, b) : a \in Opt(recsA), b \in Opt(recsB)}

\* Codes of an existing list: two full codes of one base with a suffix, two
\* full codes whose base has the number of 01001, a prefecture and an opaque
\* token.
ExistingCodes == {Code29012A, Code29012B, Code1001, Code1001A, Pref10, OpaqueABC}

\* Codes read from the CSV: read_hamlog_csv_calls stores full codes only.
IncomingCodes ==
    {Code29012A, Code29012, Code290120, Code01001, Code01001B, Code55001}

\* The pairs (existing store, incoming store) that are merged.
MergePairs ==
    {pair \in ({StoreOf(ea, eb) : ea \in Opt(ListsUpTo(ExistingCodes, MaxCodes)),
                                  eb \in Opt({<< Pref10 >>})}
               \X {StoreOf(na, nb) : na \in Opt(ListsUpTo(IncomingCodes, MaxCodes)),
                                     nb \in Opt({<< >>, << Code29012 >>})}) :
        Len(Get(pair[1], JA1ABC)) + Len(Get(pair[2], JA1ABC)) <= MaxCodes}

\* Stores of any codes, for a store merged into itself.
AnyStores ==
    StoresOf(ListsUpTo(ExistingCodes \cup {Code29012, Code290012, Code55001}, MaxLen),
             {<< >>, << Code29012 >>, << Pref10 >>})

\* Stores given to the detail-priority cleanup.
CleanupCodes ==
    {Code29012A, Code29012B, Code29012, Code290012, Code1001, Code01001,
     Pref10, Pref11, OpaqueABC}

CleanupStores ==
    StoresOf(ListsUpTo(CleanupCodes, MaxCleanup),
             {<< >>, << Pref10 >>, << Pref10, Code29012 >>})

\* The most characters of an argument of the classifier.
MaxExchLen == 7

\* Arguments of _is_jccjcg: every string of a zero, another digit and a
\* letter, and strings with the other characters it looks at.
ExchChars == {"0", "1", "A"}

ExchDate6 == << "2", "4", "/", "0", "1", "/", "0", "2" >>
ExchDate8 == << "2", "0", "2", "4", "/", "0", "1", "/", "0", "2" >>
ExchTime == << "1", "2", ":", "3", "4" >>
ExchSlash == << "1", "2", "3", "4", "/", "5" >>
ExchLower == << "2", "9", "0", "1", "2", "a" >>
ExchPadded == << " ", "2", "9", "0", "1", "2", " " >>
ExchQuoted == << "\"", "2", "9", "0", "1", "2", "\"" >>
ExchSemi == << "2", "9", "0", "1", "2", ";" >>
ExchTwoLetters == << "2", "9", "0", "1", "2", "A", "B" >>

ExchInputs ==
    UNION {[1..k -> ExchChars] : k \in 0..MaxExchLen}
        \cup {ExchDate6, ExchDate8, ExchTime, ExchSlash, ExchLower, ExchPadded,
              ExchQuoted, ExchSemi, ExchTwoLetters}

\* The lines an existing list is made of.
LinePool ==
    {LineFull, LinePref, LineOpaqueSemi, LineCallOnly, LineLowerTwo, LineComment,
     LineOther, LineOpaque}

ExistingFiles == UNION {[1..k -> LinePool] : k \in 0..MaxLines}

\* What read_hamlog_csv_calls gives the run: callsigns (whatever _is_callsign
\* accepts) with full codes or, with domestic-only off, with none.
CsvStores ==
    { EmptyMap,
      (CallSlashA1 :> << Code47003G >>),
      (JA1ABC :> << Code29012 >>),
      (JA1ABC :> << Code100115 >>) @@ (Call7J1ADJ :> << >>) }

\* Cells and rows of a CSV.
NoCell == << >>
Cell1230 == << "1", "2", "3", "0" >>
CellDate == << "2", "4", "/", "0", "1", "/", "0", "2" >>
CellTime == << "1", "2", ":", "3", "4" >>
CellX == << "X" >>
CellQTH == << "Q", "T", "H" >>
CellCALL == << "C", "A", "L", "L" >>

\* The row of the callsign in cell 0 and the code in cell 7.
Row8(call, exch) == << call, NoCell, NoCell, NoCell, NoCell, NoCell, NoCell, exch >>

RowAFull == Row8(JA1ABC, Code29012)
RowAOther == Row8(JA1ABC, Code55001)
RowANone == << JA1ABC >>
RowBFull == Row8(Call7J1ADJ, Code47003G)
RowBNone == << Call7J1ADJ >>
RowHeader == << CellX, CellQTH, CellCALL >>
RowHinted == << Cell1230, Code29012A, JA1ABC >>
RowScan == << JA1ABC, CellDate, CellTime, Code29012, NoCell, NoCell, NoCell, OpaqueABC >>
RowNoCall == << Pref10, Code29012 >>
RowCellZero == << JA1ABC, Code29012, Call7J1ADJ >>
RowCellSeven == << JA1ABC, NoCell, Code29012A, NoCell, NoCell, NoCell, NoCell, Code55001 >>
RowEmpty == << >>

\* The most rows of a CSV.
MaxRows == 2

\* The CSVs of at most n rows out of rows.
RowsUpTo(rows, n) == UNION {[1..k -> rows] : k \in 0..n}

\* The rows of the CSVs read on their own.
CsvRowPool ==
    {RowAFull, RowAOther, RowANone, RowBFull, RowHeader, RowHinted, RowScan, RowNoCall,
     RowCellZero, RowCellSeven, RowEmpty}

CsvFiles == RowsUpTo(CsvRowPool, MaxRows)

\* The rows of the CSV of a whole run, and its existing stores: records that
\* are incomplete (blank, prefectures only) and records that are not.
RunRowPool == {RowAFull, RowANone, RowBFull, RowBNone}

RunCsvFiles == RowsUpTo(RunRowPool, MaxRows)

RunExistingStores ==
    StoresOf({<< >>, << Pref10, Pref11 >>, << OpaqueABC >>, << Code29012A >>},
             {<< Pref10 >>})

\* ------------------------------------------------------------------------
\* State
\* ------------------------------------------------------------------------

VARIABLES
    pc,             \* the stage reached
    src_lines,      \* the lines of the existing-list file
    existing_map,   \* on_run's existing_map
    new_map,        \* on_run's new_map
    mode,           \* v_merge_mode
    protect,        \* v_protect_existing_detail
    merged,         \* on_run's merged
    detail_changes, \* on_run's detail_changes
    passes,         \* the mapping and the (cleaned, changes) of each application of the cleanup
    out_lines,      \* the lines of the output file
    reread,         \* the output file read back as an existing list
    csv_rows,       \* the rows of the CSV, each the list of its cells
    domestic,       \* v_domestic
    cleanup_incomplete,      \* v_cleanup_incomplete
    detail_cleanup,          \* v_detail_cleanup
    existing_before_cleanup, \* on_run's existing_before_cleanup
    incomplete_filled,       \* on_run's incomplete_filled
    incomplete_removed,      \* on_run's incomplete_removed
    exch,           \* the argument s of _is_jccjcg
    full,           \* what _is_jccjcg returned
    new_calls       \* write_merge_report's new_calls

\* The variables of the CSV, of the incomplete-record cleanup and of the
\* report.
run_vars == << csv_rows, domestic, cleanup_incomplete, detail_cleanup,
              existing_before_cleanup, incomplete_filled, incomplete_removed, new_calls >>

\* The variables of a call of the classifier.
cls_vars == << exch, full >>

vars == << pc, src_lines, existing_map, new_map, mode, protect, merged,
           detail_changes, passes, out_lines, reread, run_vars, cls_vars >>

\* ------------------------------------------------------------------------
\* Steps of run_gui.on_run
\* ------------------------------------------------------------------------

\* existing_map, header = read_existing_supercheck(exist_path)
ReadExisting ==
    /\ pc = "read"
    /\ existing_map' = read_existing_supercheck(src_lines).mapping
    /\ pc' = "merge"
    /\ UNCHANGED << src_lines, new_map, mode, protect, merged, detail_changes,
                    passes, out_lines, reread >>
    /\ UNCHANGED run_vars
    /\ UNCHANGED cls_vars

\* mode == "overwrite", with either value of v_protect_existing_detail
MergeOverwrite ==
    \E p \in BOOLEAN :
        /\ pc = "merge"
        /\ mode' = "overwrite"
        /\ protect' = p
        /\ merged' = MergeStep(existing_map, new_map, "overwrite", p)
        /\ pc' = "cleanup"
        /\ UNCHANGED << src_lines, existing_map, new_map, detail_changes, passes,
                        out_lines, reread >>
        /\ UNCHANGED run_vars
        /\ UNCHANGED cls_vars

\* mode == "append"; the protect option is read in overwrite mode only
MergeAppend ==
    /\ pc = "merge"
    /\ mode' = "append"
    /\ protect' = FALSE
    /\ merged' = MergeStep(existing_map, new_map, "append", FALSE)
    /\ pc' = "cleanup"
    /\ UNCHANGED << src_lines, existing_map, new_map, detail_changes, passes,
                    out_lines, reread >>
    /\ UNCHANGED run_vars
    /\ UNCHANGED cls_vars

\* mode == "merge"
MergeMerge ==
    /\ pc = "merge"
    /\ mode' = "merge"
    /\ protect' = FALSE
    /\ merged' = MergeStep(existing_map, new_map, "merge", FALSE)
    /\ pc' = "cleanup"
    /\ UNCHANGED << src_lines, existing_map, new_map, detail_changes, passes,
                    out_lines, reread >>
    /\ UNCHANGED run_vars
    /\ UNCHANGED cls_vars

\* v_detail_cleanup on: merged, detail_changes = detail_cleanup_map(merged)
DetailCleanup ==
    \E result \in {detail_cleanup_map(merged)} :
        /\ pc = "cleanup"
        /\ merged' = result.cleaned
        /\ detail_changes' = result.changes
        /\ pc' = "write"
        /\ UNCHANGED << src_lines, existing_map, new_map, mode, protect, passes,
                        out_lines, reread >>
        /\ detail_cleanup' = TRUE
        /\ UNCHANGED << csv_rows, domestic, cleanup_incomplete, existing_before_cleanup,
                        incomplete_filled, incomplete_removed, new_calls >>
        /\ UNCHANGED cls_vars

\* v_detail_cleanup off
SkipDetailCleanup ==
    /\ pc = "cleanup"
    /\ pc' = "write"
    /\ UNCHANGED << src_lines, existing_map, new_map, mode, protect, merged,
                    detail_changes, passes, out_lines, reread >>
    /\ detail_cleanup' = FALSE
    /\ UNCHANGED << csv_rows, domestic, cleanup_incomplete, existing_before_cleanup,
                    incomplete_filled, incomplete_removed, new_calls >>
    /\ UNCHANGED cls_vars

\* write_supercheck(out_path, merged, header_lines=[])
WriteSupercheck ==
    /\ pc = "write"
    /\ out_lines' = write_supercheck(merged, << >>)
    /\ pc' = "written"
    /\ UNCHANGED << src_lines, existing_map, new_map, mode, protect, merged,
                    detail_changes, passes, reread >>
    /\ UNCHANGED run_vars
    /\ UNCHANGED cls_vars

\* The output file is the existing list of the next run.
ReRead ==
    /\ pc = "written"
    /\ reread' = read_existing_supercheck(out_lines).mapping
    /\ pc' = "reread"
    /\ UNCHANGED << src_lines, existing_map, new_map, mode, protect, merged,
                    detail_changes, passes, out_lines >>
    /\ UNCHANGED run_vars
    /\ UNCHANGED cls_vars

\* new_map = read_hamlog_csv_calls(csv_path, keep_domestic_only=...) and
\* the copy of existing_map kept for the report
ReadCsv ==
    /\ pc = "csv"
    /\ new_map' = read_hamlog_csv_calls(csv_rows, domestic)
    /\ existing_before_cleanup' = existing_map
    /\ pc' = "incomplete"
    /\ UNCHANGED << src_lines, existing_map, mode, protect, merged, detail_changes,
                    passes, out_lines, reread >>
    /\ UNCHANGED << csv_rows, domestic, cleanup_incomplete, detail_cleanup,
                    incomplete_filled, incomplete_removed, new_calls >>
    /\ UNCHANGED cls_vars

\* v_cleanup_incomplete on
CleanupIncomplete ==
    \E result \in {cleanup_incomplete_existing(existing_map, new_map)} :
        /\ pc = "incomplete"
        /\ cleanup_incomplete' = TRUE
        /\ existing_map' = result.updated
        /\ incomplete_filled' = result.filled
        /\ incomplete_removed' = result.removed
        /\ pc' = "merge"
        /\ UNCHANGED << src_lines, new_map, mode, protect, merged, detail_changes,
                        passes, out_lines, reread >>
        /\ UNCHANGED << csv_rows, domestic, detail_cleanup, existing_before_cleanup,
                        new_calls >>
        /\ UNCHANGED cls_vars

\* v_cleanup_incomplete off
SkipCleanupIncomplete ==
    /\ pc = "incomplete"
    /\ cleanup_incomplete' = FALSE
    /\ pc' = "merge"
    /\ UNCHANGED << src_lines, existing_map, new_map, mode, protect, merged,
                    detail_changes, passes, out_lines, reread >>
    /\ UNCHANGED << csv_rows, domestic, detail_cleanup, existing_before_cleanup,
                    incomplete_filled, incomplete_removed, new_calls >>
    /\ UNCHANGED cls_vars

\* write_merge_report: existing_calls and new_calls
WriteReport ==
    /\ pc = "written"
    /\ new_calls' = Sorted({c \in DOMAIN new_map : c \notin DOMAIN existing_map})
    /\ pc' = "reported"
    /\ UNCHANGED << src_lines, existing_map, new_map, mode, protect, merged,
                    detail_changes, passes, out_lines, reread >>
    /\ UNCHANGED << csv_rows, domestic, cleanup_incomplete, detail_cleanup,
                    existing_before_cleanup, incomplete_filled, incomplete_removed >>
    /\ UNCHANGED cls_vars

\* _is_jccjcg(s)
Classify ==
    /\ pc = "classify"
    /\ full' = _is_jccjcg(exch)
    /\ pc' = "classified"
    /\ UNCHANGED << src_lines, existing_map, new_map, mode, protect, merged,
                    detail_changes, passes, out_lines, reread, exch >>
    /\ UNCHANGED run_vars

\* detail_cleanup_map applied to the map the last application returned.
ApplyCleanup ==
    \E result \in {detail_cleanup_map(merged)} :
        /\ pc = "apply"
        /\ Len(passes) < MaxApply
        /\ merged' = result.cleaned
        /\ passes' = Append(passes, [mapping |-> merged,
                                     cleaned |-> result.cleaned,
                                     changes |-> result.changes])
        /\ UNCHANGED << pc, src_lines, existing_map, new_map, mode, protect,
                        detail_changes, out_lines, reread >>
        /\ UNCHANGED run_vars
        /\ UNCHANGED cls_vars

\* ------------------------------------------------------------------------
\* Specifications
\* ------------------------------------------------------------------------

\* What no step has set yet.
Unset ==
    /\ mode = "none"
    /\ protect = FALSE
    /\ detail_changes = EmptyMap
    /\ passes = << >>
    /\ out_lines = << >>
    /\ reread = EmptyMap
    /\ csv_rows = << >>
    /\ domestic = TRUE
    /\ cleanup_incomplete = FALSE
    /\ detail_cleanup = FALSE
    /\ existing_before_cleanup = EmptyMap
    /\ incomplete_filled = {}
    /\ incomplete_removed = {}
    /\ new_calls = << >>
    /\ exch = << >>
    /\ full = FALSE

\* A run: an existing list and the stores of a CSV, merged, cleaned, written
\* and read back.
Init ==
    /\ pc = "read"
    /\ src_lines \in ExistingFiles
    /\ new_map \in CsvStores
    /\ existing_map = EmptyMap
    /\ merged = EmptyMap
    /\ Unset

Next ==
    \/ ReadExisting
    \/ MergeOverwrite
    \/ MergeAppend
    \/ MergeMerge
    \/ DetailCleanup
    \/ SkipDetailCleanup
    \/ WriteSupercheck
    \/ ReRead

Spec == Init /\ [][Next]_vars

\* The merge step on every pair of an existing and an incoming store.
InitMerge ==
    /\ pc = "merge"
    /\ src_lines = << >>
    /\ \E pair \in MergePairs : existing_map = pair[1] /\ new_map = pair[2]
    /\ merged = EmptyMap
    /\ Unset

NextMerge == MergeOverwrite \/ MergeAppend \/ MergeMerge

SpecMerge == InitMerge /\ [][NextMerge]_vars

\* A store merged into itself.
InitSelfMerge ==
    /\ pc = "merge"
    /\ src_lines = << >>
    /\ existing_map \in AnyStores
    /\ new_map = existing_map
    /\ merged = EmptyMap
    /\ Unset

NextSelfMerge == MergeAppend \/ MergeMerge

SpecSelfMerge == InitSelfMerge /\ [][NextSelfMerge]_vars

\* The detail-priority cleanup applied again and again to a store.
InitCleanup ==
    /\ pc = "apply"
    /\ src_lines = << >>
    /\ existing_map = EmptyMap
    /\ new_map = EmptyMap
    /\ merged \in CleanupStores
    /\ Unset

NextCleanup == ApplyCleanup

SpecCleanup == InitCleanup /\ [][NextCleanup]_vars

\* The CSV read on its own.
InitCsv ==
    /\ pc = "csv"
    /\ src_lines = << >>
    /\ existing_map = EmptyMap
    /\ new_map = EmptyMap
    /\ merged = EmptyMap
    /\ mode = "none"
    /\ protect = FALSE
    /\ detail_changes = EmptyMap
    /\ passes = << >>
    /\ out_lines = << >>
    /\ reread = EmptyMap
    /\ csv_rows \in CsvFiles
    /\ domestic \in BOOLEAN
    /\ cleanup_incomplete = FALSE
    /\ detail_cleanup = FALSE
    /\ existing_before_cleanup = EmptyMap
    /\ incomplete_filled = {}
    /\ incomplete_removed = {}
    /\ new_calls = << >>
    /\ exch = << >>
    /\ full = FALSE

NextCsv == ReadCsv

SpecCsv == InitCsv /\ [][NextCsv]_vars

\* The classifier of full codes on its own.
InitClassify ==
    /\ pc = "classify"
    /\ src_lines = << >>
    /\ existing_map = EmptyMap
    /\ new_map = EmptyMap
    /\ merged = EmptyMap
    /\ mode = "none"
    /\ protect = FALSE
    /\ detail_changes = EmptyMap
    /\ passes = << >>
    /\ out_lines = << >>
    /\ reread = EmptyMap
    /\ csv_rows = << >>
    /\ domestic = TRUE
    /\ cleanup_incomplete = FALSE
    /\ detail_cleanup = FALSE
    /\ existing_before_cleanup = EmptyMap
    /\ incomplete_filled = {}
    /\ incomplete_removed = {}
    /\ new_calls = << >>
    /\ exch \in ExchInputs
    /\ full = FALSE

NextClassify == Classify

SpecClassify == InitClassify /\ [][NextClassify]_vars

\* A whole run from the CSV on: the incomplete-record cleanup or not, the
\* merge, the detail-priority cleanup or not, the output and the report.
InitRun ==
    /\ pc = "csv"
    /\ src_lines = << >>
    /\ existing_map \in RunExistingStores
    /\ new_map = EmptyMap
    /\ merged = EmptyMap
    /\ mode = "none"
    /\ protect = FALSE
    /\ detail_changes = EmptyMap
    /\ passes = << >>
    /\ out_lines = << >>
    /\ reread = EmptyMap
    /\ csv_rows \in RunCsvFiles
    /\ domestic \in BOOLEAN
    /\ cleanup_incomplete = FALSE
    /\ detail_cleanup = FALSE
    /\ existing_before_cleanup = EmptyMap
    /\ incomplete_filled = {}
    /\ incomplete_removed = {}
    /\ new_calls = << >>
    /\ exch = << >>
    /\ full = FALSE

NextRun ==
    \/ ReadCsv
    \/ CleanupIncomplete
    \/ SkipCleanupIncomplete
    \/ MergeOverwrite
    \/ MergeAppend
    \/ MergeMerge
    \/ DetailCleanup
    \/ SkipDetailCleanup
    \/ WriteSupercheck
    \/ WriteReport

SpecRun == InitRun /\ [][NextRun]_vars

\* ------------------------------------------------------------------------
\* Properties of the classifier of full codes (SpecClassify)
\* ------------------------------------------------------------------------

\* C15: _is_jccjcg, with s the trimmed, uppercased form of its argument (the
\* argument itself when it is trimmed and uppercased already), is true iff
\* s does not match DD/DD/DD or DDDD/DD/DD, contains neither '/' nor ':',
\* matches 4 to 6 digits optionally followed by one letter, and its digit
\* part is not all zeros: date-shaped strings, "0000" and "000000A" are
\* rejected, 4 to 6 digits with a digit other than zero are accepted.
C15_FullLocator ==
    pc = "classified" =>
        LET s == _norm_exch(exch)
            Shaped(pat) ==
                /\ Len(s) = Len(pat)
                /\ \A i \in DOMAIN pat :
                       IF pat[i] = "D" THEN s[i] \in Digits ELSE s[i] = pat[i]
            Date == \/ Shaped(<< "D", "D", "/", "D", "D", "/", "D", "D" >>)
                    \/ Shaped(<< "D", "D", "D", "D", "/", "D", "D", "/", "D", "D" >>)
            Locator(n, lettered) ==
                /\ Len(s) = (IF lettered THEN n + 1 ELSE n)
                /\ \A i \in 1..n : s[i] \in Digits
                /\ lettered => s[n + 1] \in UpperLetters
        IN  full <=>
                /\ ~Date
                /\ ~\E i \in DOMAIN s : s[i] \in {"/", ":"}
                /\ \E n \in 4..6 : \E lettered \in BOOLEAN :
                       /\ Locator(n, lettered)
                       /\ \E i \in 1..n : s[i] # "0"

\* "000000A" was classified and rejected: six zeros and a letter.
C15_Witness ==
    /\ pc = "classified"
    /\ exch = << "0", "0", "0", "0", "0", "0", "A" >>
    /\ ~full

\* ------------------------------------------------------------------------
\* Properties of the CSV reader (SpecCsv)
\* ------------------------------------------------------------------------

\* C16: a row's callsign is the first that classifies as a callsign of
\* cell 0, the header-hinted column and the cells from left to right; its
\* locator is the first that classifies as a full locator of cell 7, the
\* header-hinted column and the cells from left to right, never a cell
\* that contains '/' or ':'. A later strategy is consulted only when every
\* earlier one failed: the store holds, for every callsign, the locators
\* so extracted from the rows that gave this callsign. An 8-cell row with
\* "7J1ADJ/6" in cell 0 and "47003G" in cell 7, without a header, yields
\* ("7J1ADJ/6", "47003G").
C16_FirstSuccessChain ==
    pc = "incomplete" =>
        LET stripped(k) == [i \in DOMAIN csv_rows[k] |-> _strip_cell(csv_rows[k][i])]
            header == /\ Len(csv_rows) >= 1
                      /\ \E i \in DOMAIN csv_rows[1] :
                             upper(_strip_cell(csv_rows[1][i])) \in HeaderMarks
            hint(names) == IF header THEN _header_index(stripped(1), names) ELSE 0
            data == {k \in DOMAIN csv_rows : csv_rows[k] # << >> /\ ~(k = 1 /\ header)}
            \* the positions consulted, in order: the fixed cell, the hinted
            \* column, every cell
            order(k, fixed, hinted) ==
                << fixed >> \o (IF hinted # 0 THEN << hinted >> ELSE << >>)
                    \o [i \in DOMAIN csv_rows[k] |-> i]
            IsCall(k, i) == i \in DOMAIN csv_rows[k] /\ _is_callsign(_norm_call(stripped(k)[i]))
            IsExch(k, i) ==
                /\ i \in DOMAIN csv_rows[k]
                /\ _is_jccjcg(_norm_exch(stripped(k)[i]))
                /\ \A j \in DOMAIN _norm_exch(stripped(k)[i]) :
                       _norm_exch(stripped(k)[i])[j] \notin {"/", ":"}
            first(k, seq, Ok(_, _)) ==
                IF \A n \in DOMAIN seq : ~Ok(k, seq[n]) THEN 0
                ELSE seq[CHOOSE n \in DOMAIN seq :
                             Ok(k, seq[n]) /\ \A m \in 1..(n - 1) : ~Ok(k, seq[m])]
            callAt(k) == first(k, order(k, 1, hint(_CALL_HEADERS)), IsCall)
            exchAt(k) == first(k, order(k, 8, hint(_QTH_HEADERS)), IsExch)
            callOf(k) == IF callAt(k) = 0 THEN << >> ELSE _norm_call(stripped(k)[callAt(k)])
            exchOf(k) == IF exchAt(k) = 0 THEN << >> ELSE _norm_exch(stripped(k)[exchAt(k)])
            stored == {k \in data : callOf(k) # << >> /\ (domestic => exchOf(k) # << >>)}
        IN  /\ DOMAIN new_map = {callOf(k) : k \in stored}
            /\ \A c \in DOMAIN new_map :
                   ToSet(new_map[c]) = {exchOf(k) : k \in {n \in stored : callOf(n) = c}} \ {<< >>}
            /\ csv_rows = << RowBFull >> => new_map = (Call7J1ADJ :> << Code47003G >>)

\* The row with "7J1ADJ/6" in cell 0 and "47003G" in cell 7, the only row of
\* the CSV, was read.
C16_Witness ==
    /\ pc = "incomplete"
    /\ csv_rows = << RowBFull >>
    /\ new_map = (Call7J1ADJ :> << Code47003G >>)

\* C17: the store of the CSV reader after any sequence of rows: a row with
\* no callsign adds nothing; with domestic-only on a row with no locator
\* adds nothing, so every callsign of the store has at least one code and
\* every code is a full locator; with domestic-only off every row with a
\* callsign leaves this callsign in the store, with an empty list when no
\* row gave it a locator; in both modes every code list is duplicate-free
\* and in first-seen order.
C17_StoreInvariant ==
    pc = "incomplete" =>
        LET header == /\ Len(csv_rows) >= 1
                      /\ csv_rows[1] # << >>
                      /\ IsHeaderRow(csv_rows[1])
            stripped(k) == [i \in DOMAIN csv_rows[k] |-> _strip_cell(csv_rows[k][i])]
            call_idx == IF header THEN _header_index(stripped(1), _CALL_HEADERS) ELSE 0
            qth_idx == IF header THEN _header_index(stripped(1), _QTH_HEADERS) ELSE 0
            data == {k \in DOMAIN csv_rows : csv_rows[k] # << >> /\ ~(k = 1 /\ header)}
            callOf(k) == RowCall(stripped(k), call_idx)
            exchOf(k) == RowExch(stripped(k), qth_idx)
            \* the first row that gives the callsign c the code x
            firstRow(c, x) ==
                CHOOSE k \in data :
                    /\ callOf(k) = c /\ exchOf(k) = x
                    /\ \A j \in data : (callOf(j) = c /\ exchOf(j) = x) => k <= j
        IN  /\ \A c \in DOMAIN new_map : \E k \in data : callOf(k) = c
            /\ << >> \notin DOMAIN new_map
            /\ domestic =>
                   \A c \in DOMAIN new_map :
                       /\ new_map[c] # << >>
                       /\ \A i \in DOMAIN new_map[c] : _is_jccjcg(new_map[c][i])
                       /\ \E k \in data : callOf(k) = c /\ exchOf(k) # << >>
            /\ ~domestic =>
                   \A k \in data :
                       callOf(k) # << >> =>
                           /\ callOf(k) \in DOMAIN new_map
                           /\ (new_map[callOf(k)] = << >>) <=>
                                  \A j \in data : callOf(j) = callOf(k) => exchOf(j) = << >>
            /\ \A c \in DOMAIN new_map :
                   /\ \A i, j \in DOMAIN new_map[c] : i # j => new_map[c][i] # new_map[c][j]
                   /\ \A i \in DOMAIN new_map[c] :
                          \E k \in data : callOf(k) = c /\ exchOf(k) = new_map[c][i]
                   /\ \A i, j \in DOMAIN new_map[c] :
                          i < j => firstRow(c, new_map[c][i]) < firstRow(c, new_map[c][j])

\* With domestic-only on, the row of JA1ABC without a locator added nothing
\* and the row of JA1ABC with "55001" gave the store its only record.
C17_Witness ==
    /\ pc = "incomplete"
    /\ domestic
    /\ csv_rows = << RowANone, RowAOther >>
    /\ new_map = (JA1ABC :> << Code55001 >>)

\* ------------------------------------------------------------------------
\* Properties of the detail-priority cleanup (SpecCleanup)
\* ------------------------------------------------------------------------

\* C1: detail_cleanup_map is idempotent: applied to the cleaned store of a
\* first application, it returns the same store and reports no removed
\* code for any callsign.
C1_CleanupIdempotent ==
    Len(passes) >= 2 =>
        /\ passes[2].cleaned = passes[1].cleaned
        /\ DOMAIN passes[2].changes = {}

\* The cleanup ran twice on a store from which the first application removed
\* a less detailed code of JA1ABC and a prefecture of 7J1ADJ/6.
C1_Witness ==
    /\ Len(passes) >= 2
    /\ JA1ABC \in DOMAIN passes[1].changes
    /\ passes[1].changes[JA1ABC].removed_less_detail # << >>
    /\ Call7J1ADJ \in DOMAIN passes[1].changes
    /\ passes[1].changes[Call7J1ADJ].removed_pref2 # << >>

\* ------------------------------------------------------------------------
\* Properties of a store merged into itself (SpecSelfMerge)
\* ------------------------------------------------------------------------

\* C2: merge idempotence: the merge step with existing = S and incoming = S
\* under the append or the merge policy yields S: the same callsigns and,
\* for each, the same codes in the same order.
C2_MergeIdempotent ==
    (pc = "cleanup" /\ mode \in {"append", "merge"} /\ new_map = existing_map) =>
        /\ DOMAIN merged = DOMAIN existing_map
        /\ \A c \in DOMAIN existing_map : merged[c] = existing_map[c]

\* A store of two callsigns, JA1ABC with two codes of which one is a full
\* code, was merged into itself under the merge policy.
C2_Witness ==
    /\ pc = "cleanup"
    /\ mode = "merge"
    /\ new_map = existing_map
    /\ DOMAIN existing_map = {JA1ABC, Call7J1ADJ}
    /\ Len(existing_map[JA1ABC]) = 2
    /\ Fulls(existing_map[JA1ABC]) # << >>
    /\ Fulls(existing_map[Call7J1ADJ]) # << >>

\* ------------------------------------------------------------------------
\* Properties of a run (Spec)
\* ------------------------------------------------------------------------

\* C3: round trip: a store whose keys satisfy _is_callsign and whose
\* records hold full codes and partial codes, or one opaque token, is
\* written by write_supercheck without header lines and read back by
\* read_existing_supercheck as a store of the same callsigns with, for each,
\* the same set of codes; a record of one opaque token comes back as exactly
\* that token.
C3_RoundTrip ==
    (/\ pc = "reread"
     /\ \A c \in DOMAIN merged :
            /\ _is_callsign(c)
            /\ \/ \A i \in DOMAIN merged[c] :
                      _is_jccjcg(merged[c][i]) \/ _is_pref2(merged[c][i])
               \/ Len(merged[c]) = 1)
    => /\ DOMAIN reread = DOMAIN merged
       /\ \A c \in DOMAIN merged :
            /\ ToSet(Get(reread, c)) = ToSet(merged[c])
            /\ Len(merged[c]) = 1 => Get(reread, c) = merged[c]

\* ------------------------------------------------------------------------
\* Properties of the merge step (SpecMerge)
\* ------------------------------------------------------------------------

\* C4: overwrite with the protect option on, for a callsign whose incoming
\* record has a full code: the result holds exactly one code for each
\* normalized base among the full codes of the existing and the incoming
\* record; that code has the highest score among the candidates of its base
\* and, when an existing and an incoming candidate tie on score, it is the
\* incoming one.
C4_OnePerNormalizedBase ==
    (pc = "cleanup" /\ mode = "overwrite" /\ protect) =>
        \A c \in DOMAIN new_map :
            Fulls(new_map[c]) # << >> =>
                LET nb(x) == _normalize_base_digits(_split_num_suffix(x).num)
                    inc   == ToSet(Fulls(new_map[c]))
                    cands == ToSet(Fulls(Get(existing_map, c))) \cup inc
                    out   == ToSet(merged[c])
                IN  /\ out \subseteq cands
                    /\ Len(merged[c]) = Cardinality(out)
                    /\ \A x \in cands :
                         \E y \in out :
                            /\ nb(y) = nb(x)
                            /\ \A z \in out : nb(z) = nb(x) => z = y
                            /\ \A z \in cands :
                                 nb(z) = nb(x) => _detail_score(z) <= _detail_score(y)
                            /\ (\E z \in inc : /\ nb(z) = nb(x)
                                               /\ _detail_score(z) = _detail_score(y))
                               => y \in inc

C6_IncomingOnePerBase ==
    (pc = "cleanup" /\ mode = "overwrite" /\ ~protect) =>
        \A c \in DOMAIN new_map :
            Fulls(new_map[c]) # << >> =>
                LET nb(x) == _normalize_base_digits(_split_num_suffix(x).num)
                    inc   == ToSet(Fulls(new_map[c]))
                    out   == ToSet(merged[c])
                IN  /\ out \subseteq inc
                    /\ \A x \in inc :
                         \E y \in out :
                            /\ nb(y) = nb(x)
                            /\ \A z \in out : nb(z) = nb(x) => z = y
                            /\ \A z \in inc :
                                 nb(z) = nb(x) => _detail_score(z) <= _detail_score(y)

\* C6, amended: overwrite with the protect option off, for a callsign whose
\* incoming record has a full code: the result holds no code that is not an
\* incoming full code, and it holds every incoming full code, each once, in
\* incoming order, several codes of one normalized base included.
C6_IncomingFullsReplace ==
    (pc = "cleanup" /\ mode = "overwrite" /\ ~protect) =>
        \A c \in DOMAIN new_map :
            Fulls(new_map[c]) # << >> =>
                /\ ToSet(merged[c]) = ToSet(Fulls(new_map[c]))
                /\ Len(merged[c]) = Cardinality(ToSet(merged[c]))
                /\ \A i, j \in DOMAIN merged[c] :
                     i < j =>
                        \E k, l \in DOMAIN new_map[c] :
                            k < l /\ new_map[c][k] = merged[c][i] /\ new_map[c][l] = merged[c][j]

\* Incoming ["29012", "29012A"], two codes of one normalized base, replaced
\* an existing record with a more detailed code and an opaque token under
\* overwrite with the protect option off.
C6_Witness ==
    /\ pc = "cleanup" /\ mode = "overwrite" /\ ~protect
    /\ Get(new_map, JA1ABC) = << Code29012, Code29012A >>
    /\ Get(existing_map, JA1ABC) = << OpaqueABC >>
    /\ merged[JA1ABC] = << Code29012, Code29012A >>

\* C7: overwrite, with either value of the protect option: a callsign of
\* new_map whose incoming record has no full code ends with its existing
\* list, the same codes in the same order, and with the empty list when it
\* had no existing record; partial and opaque existing codes stay.
C7_NoFullKeepsExisting ==
    (pc = "cleanup" /\ mode = "overwrite") =>
        \A c \in DOMAIN new_map :
            Fulls(new_map[c]) = << >> =>
                /\ c \in DOMAIN merged
                /\ merged[c] = Get(existing_map, c)

\* Under overwrite with the protect option on, JA1ABC came with no full code
\* and kept its prefecture and its opaque token, and 7J1ADJ/6, without an
\* existing record, came with no full code and has the empty list.
C7_Witness ==
    /\ pc = "cleanup" /\ mode = "overwrite" /\ protect
    /\ JA1ABC \in DOMAIN new_map /\ new_map[JA1ABC] = << >>
    /\ Get(existing_map, JA1ABC) = << Pref10, OpaqueABC >>
    /\ merged[JA1ABC] = << Pref10, OpaqueABC >>
    /\ Call7J1ADJ \in DOMAIN new_map /\ new_map[Call7J1ADJ] = << >>
    /\ Call7J1ADJ \notin DOMAIN existing_map
    /\ merged[Call7J1ADJ] = << >>

\* C8: append: for a callsign of new_map with a full code, when the existing
\* record is absent or empty the output record is the incoming full codes in
\* incoming order, and otherwise it is the existing record; existing
\* {JA1ABC: []} with incoming {JA1ABC: ["55001"]} gives {JA1ABC: ["55001"]}.
C8_AppendFillsEmptyOnly ==
    (pc = "cleanup" /\ mode = "append") =>
        /\ \A c \in DOMAIN new_map :
            Fulls(new_map[c]) # << >> =>
                /\ c \in DOMAIN merged
                /\ merged[c] = IF Get(existing_map, c) = << >>
                               THEN SelectSeq(new_map[c], _is_jccjcg)
                               ELSE existing_map[c]
        /\ (/\ existing_map = (JA1ABC :> << >>)
            /\ new_map = (JA1ABC :> << Code55001 >>))
           => merged = (JA1ABC :> << Code55001 >>)

\* Under append, existing {JA1ABC: []} met incoming {JA1ABC: ["55001"]} and
\* the output is {JA1ABC: ["55001"]}.
C8_Witness ==
    /\ pc = "cleanup" /\ mode = "append"
    /\ existing_map = (JA1ABC :> << >>)
    /\ new_map = (JA1ABC :> << Code55001 >>)
    /\ merged = (JA1ABC :> << Code55001 >>)

\* C9: merge: the output record of every callsign is its existing list,
\* unchanged and in order, followed by the incoming full codes that were not
\* in it, in incoming order.
C9_MergeAppendsNewFulls ==
    (pc = "cleanup" /\ mode = "merge") =>
        \A c \in DOMAIN existing_map \cup DOMAIN new_map \cup DOMAIN merged :
            Get(merged, c) =
                Get(existing_map, c)
                \o SelectSeq(Get(new_map, c),
                             LAMBDA x : /\ _is_jccjcg(x)
                                        /\ ~Contains(Get(existing_map, c), x))

\* Under merge, existing ["29012A"] met incoming ["29012A", "55001"] and the
\* output is ["29012A", "55001"].
C9_Witness ==
    /\ pc = "cleanup" /\ mode = "merge"
    /\ Get(existing_map, JA1ABC) = << Code29012A >>
    /\ Get(new_map, JA1ABC) = << Code29012A, Code55001 >>
    /\ merged[JA1ABC] = << Code29012A, Code55001 >>

\* C10, as stated: under append and under merge every callsign that is not
\* an incoming callsign with a full code has the record it had in existing,
\* and none when it had none; under overwrite every callsign absent from
\* new_map has the record it had in existing.
C10_Footprint ==
    pc = "cleanup" =>
        \A c \in DOMAIN existing_map \cup DOMAIN new_map \cup DOMAIN merged :
            (\/ c \notin DOMAIN new_map
             \/ mode \in {"append", "merge"} /\ Fulls(new_map[c]) = << >>)
            => /\ c \in DOMAIN merged <=> c \in DOMAIN existing_map
               /\ c \in DOMAIN existing_map => merged[c] = existing_map[c]

\* C10, amended: the same, except that under append an incoming callsign
\* with no full code that has no existing record is added with the empty
\* list.
C10_FootprintAmended ==
    pc = "cleanup" =>
        \A c \in DOMAIN existing_map \cup DOMAIN new_map \cup DOMAIN merged :
            (\/ c \notin DOMAIN new_map
             \/ mode \in {"append", "merge"} /\ Fulls(new_map[c]) = << >>)
            => IF mode = "append" /\ c \in DOMAIN new_map /\ c \notin DOMAIN existing_map
               THEN c \in DOMAIN merged /\ merged[c] = << >>
               ELSE /\ c \in DOMAIN merged <=> c \in DOMAIN existing_map
                    /\ c \in DOMAIN existing_map => merged[c] = existing_map[c]

\* Under append, 7J1ADJ/6 came with no full code and without an existing
\* record and was added with the empty list, while JA1ABC, in the existing
\* store only, kept its record.
C10_Witness ==
    /\ pc = "cleanup" /\ mode = "append"
    /\ Call7J1ADJ \in DOMAIN new_map /\ new_map[Call7J1ADJ] = << >>
    /\ Call7J1ADJ \notin DOMAIN existing_map
    /\ merged[Call7J1ADJ] = << >>
    /\ JA1ABC \in DOMAIN existing_map \ DOMAIN new_map
    /\ existing_map[JA1ABC] # << >>
    /\ merged[JA1ABC] = existing_map[JA1ABC]


\* C12: detail cleanup, rule 2, groups the full codes of a callsign by
\* normalized base: every suffixed full code survives, and a suffix-less
\* full code survives iff no suffixed code of the callsign has its
\* normalized base and it is the best of the suffix-less codes of its
\* normalized base (highest score, then shortest, then smallest); no code
\* is dropped because of a code of another normalized base.
C12_SurvivalByNormalizedBase ==
    \A i \in DOMAIN passes : \A c \in DOMAIN passes[i].mapping :
        LET fulls == ToSet(Fulls(passes[i].mapping[c]))
            survivors == ToSet(passes[i].cleaned[c])
            NormBase(x) == _normalize_base_digits(_split_num_suffix(x).num)
            Peers(x) == {y \in fulls : NormBase(y) = NormBase(x)}
        IN  \A x \in fulls :
                x \in survivors <=>
                    \/ HasSuffix(x)
                    \/ /\ \A y \in Peers(x) : ~HasSuffix(y)
                       /\ \A y \in Peers(x) : ~SortKeyLess(y, x)

\* C14: accounting of the detail cleanup: the cleaned store has the
\* callsigns of the input; for every callsign the surviving list is a
\* subsequence of the input list, and the input codes are exactly the
\* disjoint union of the survivors, the removed partial codes and the
\* removed less detailed codes; a callsign is in changes iff one of its
\* codes was dropped.
C14_Accounting ==
    \A i \in DOMAIN passes :
        /\ DOMAIN passes[i].cleaned = DOMAIN passes[i].mapping
        /\ DOMAIN passes[i].changes \subseteq DOMAIN passes[i].mapping
        /\ \A c \in DOMAIN passes[i].mapping :
               LET input == passes[i].mapping[c]
                   kept == passes[i].cleaned[c]
                   changed == c \in DOMAIN passes[i].changes
                   partials == IF changed THEN passes[i].changes[c].removed_pref2
                               ELSE << >>
                   lesser == IF changed THEN passes[i].changes[c].removed_less_detail
                             ELSE << >>
               IN  /\ \E f \in [DOMAIN kept -> DOMAIN input] :
                          /\ \A a, b \in DOMAIN kept : a < b => f[a] < f[b]
                          /\ \A a \in DOMAIN kept : input[f[a]] = kept[a]
                   /\ ToSet(kept) \cup ToSet(partials) \cup ToSet(lesser) = ToSet(input)
                   /\ Len(kept) + Len(partials) + Len(lesser) = Len(input)
                   /\ ToSet(kept) \cap ToSet(partials) = {}
                   /\ ToSet(kept) \cap ToSet(lesser) = {}
                   /\ ToSet(partials) \cap ToSet(lesser) = {}
                   /\ changed <=> kept # input

\* The cleanup of JA1ABC's ["10", "29012", "29012A"] kept "29012A" and
\* removed the partial code "10" and the less detailed code "29012".
C14_Witness ==
    /\ Len(passes) >= 1
    /\ JA1ABC \in DOMAIN passes[1].mapping
    /\ passes[1].mapping[JA1ABC] = << Pref10, Code29012, Code29012A >>
    /\ passes[1].cleaned[JA1ABC] = << Code29012A >>
    /\ JA1ABC \in DOMAIN passes[1].changes
    /\ passes[1].changes[JA1ABC].removed_pref2 = << Pref10 >>
    /\ passes[1].changes[JA1ABC].removed_less_detail = << Code29012 >>

\* ------------------------------------------------------------------------
\* Properties of the detail-priority cleanup within a run (Spec)
\* ------------------------------------------------------------------------

\* C13: detail cleanup, rule 1: in the cleaned store no callsign has both a
\* full code and a partial code; a callsign with a full code loses all its
\* partial codes, a callsign with no full code keeps its whole record, and
\* tokens that are neither full nor partial are always kept. Existing
\* {JA1ABC: ["10"]} and incoming {JA1ABC: ["100115"]}, overwritten and then
\* cleaned, give JA1ABC the record ["100115"].
C13_NoPartialBesideFull ==
    detail_cleanup =>
        LET input == MergeStep(existing_map, new_map, mode, protect)
        IN  /\ DOMAIN merged = DOMAIN input
            /\ \A c \in DOMAIN merged :
                   /\ ~(/\ \E k \in DOMAIN merged[c] : _is_jccjcg(merged[c][k])
                        /\ \E k \in DOMAIN merged[c] : _is_pref2(merged[c][k]))
                   /\ Fulls(input[c]) # << >> =>
                          \A k \in DOMAIN merged[c] : ~_is_pref2(merged[c][k])
                   /\ Fulls(input[c]) = << >> => merged[c] = input[c]
                   /\ \A k \in DOMAIN input[c] :
                          (~_is_jccjcg(input[c][k]) /\ ~_is_pref2(input[c][k]))
                              => input[c][k] \in ToSet(merged[c])
            /\ ( /\ mode = "overwrite"
                 /\ JA1ABC \in DOMAIN existing_map
                 /\ existing_map[JA1ABC] = << Pref10 >>
                 /\ JA1ABC \in DOMAIN new_map
                 /\ new_map[JA1ABC] = << Code100115 >> )
               => merged[JA1ABC] = << Code100115 >>

\* Existing {JA1ABC: ["10"]} was merged with incoming ["100115"] under the
\* policy 'merge', which left the prefecture "10" beside the full code, and
\* the cleanup removed it.
C13_Witness ==
    /\ detail_cleanup
    /\ mode = "merge"
    /\ existing_map = (JA1ABC :> << Pref10 >>)
    /\ JA1ABC \in DOMAIN new_map
    /\ new_map[JA1ABC] = << Code100115 >>
    /\ JA1ABC \in DOMAIN detail_changes
    /\ detail_changes[JA1ABC].removed_pref2 = << Pref10 >>
    /\ merged[JA1ABC] = << Code100115 >>

\* ------------------------------------------------------------------------
\* Properties of a whole run (SpecRun)
\* ------------------------------------------------------------------------

\* C11: cleanup_incomplete_existing, for every callsign c of the existing
\* store, where a record is incomplete iff it has no full code and all of
\* its codes (possibly none) are two-digit partial codes: a record that is
\* not incomplete is unchanged and c is in neither list; an incomplete
\* record whose incoming record has a full code becomes exactly the
\* incoming full codes and c is in filled; an incomplete record whose
\* incoming record has no full code (or is absent) is deleted and c is in
\* removed.
C11_IncompleteCleanup ==
    (pc = "merge" /\ cleanup_incomplete) =>
        /\ DOMAIN existing_map \subseteq DOMAIN existing_before_cleanup
        /\ incomplete_filled \cup incomplete_removed
               \subseteq DOMAIN existing_before_cleanup
        /\ \A c \in DOMAIN existing_before_cleanup :
               LET rec == existing_before_cleanup[c]
                   incomplete ==
                       /\ ~\E k \in DOMAIN rec : _is_jccjcg(rec[k])
                       /\ \A k \in DOMAIN rec : _is_pref2(rec[k])
                   incoming == SelectSeq(Get(new_map, c), _is_jccjcg)
               IN  /\ ~incomplete =>
                       /\ c \in DOMAIN existing_map
                       /\ existing_map[c] = rec
                       /\ c \notin incomplete_filled
                       /\ c \notin incomplete_removed
                   /\ (incomplete /\ incoming # << >>) =>
                       /\ c \in DOMAIN existing_map
                       /\ existing_map[c] = incoming
                       /\ c \in incomplete_filled
                       /\ c \notin incomplete_removed
                   /\ (incomplete /\ incoming = << >>) =>
                       /\ c \notin DOMAIN existing_map
                       /\ c \in incomplete_removed
                       /\ c \notin incomplete_filled

\* The cleanup ran on the existing store {JA1ABC: ["10", "11"]} with no
\* incoming record of JA1ABC, and removed JA1ABC.
C11_Witness ==
    /\ pc = "merge"
    /\ cleanup_incomplete
    /\ existing_before_cleanup = StoreOf(<< << Pref10, Pref11 >> >>, << >>)
    /\ JA1ABC \notin DOMAIN new_map
    /\ incomplete_removed = {JA1ABC}
    /\ JA1ABC \notin DOMAIN existing_map

\* C18: the report's list of newly merged callsigns is exactly the set of
\* the callsigns that are in the merged output store and were not in the
\* existing store given to the merge, whatever the merge policy and the
\* settings of domestic-only, incomplete-record cleanup and detail cleanup.
C18_NewCallsAreMerged ==
    pc = "reported" =>
        ToSet(new_calls) = {c \in DOMAIN merged : c \notin DOMAIN existing_map}

\* C19: when the incomplete-record cleanup is enabled, a callsign it deleted
\* from the existing store (one of the removed list) is not in the merged
\* output, after the merge and after the detail cleanup or without it,
\* whatever the merge policy and the setting of domestic-only.
C19_RemovedStaysRemoved ==
    (pc \in {"cleanup", "write", "written", "reported"} /\ cleanup_incomplete) =>
        \A c \in incomplete_removed : c \notin DOMAIN merged

====
